---------------------------- MODULE Spec2Model ----------------------------
(***************************************************************************)
(* A model of scripts/generate_ical.py: the Engage feed fetcher            *)
(* (fetch_all_events), the text helpers (escape_ical, strip_html, zulu),   *)
(* the event mapper (to_vevent) and the assembler/writer (main).           *)
(*                                                                         *)
(* Text is a sequence of characters.  A character is a one-character       *)
(* string; a longer string such as "Career Fair" or "BEGIN:VEVENT" is a    *)
(* chunk of ordinary characters (letters, digits, ':', '-', '/', '@', '.') *)
(* that holds none of the characters the program treats specially.         *)
(***************************************************************************)
EXTENDS Integers, Sequences, FiniteSets, TLC

VARIABLES
    \* ---- process environment (read once at import, lines 8-11) ----
    API_URL,        \* os.environ.get("ENGAGE_API_URL"): None, "" or a URL
    uidDomainEnv,   \* an identity-domain setting present in the environment
    now,            \* the wall clock datetime.now() reads, already formatted
    \* ---- the remote feed ----
    feed,           \* the server's records, in the server's order
    hasTotal,       \* whether the server's bodies carry "totalItems"
    servePolicy,    \* how the server fills a page
    \* ---- main / fetch_all_events ----
    pc,             \* where the run is
    skip,           \* fetch_all_events: skip
    events,         \* fetch_all_events: events (then main: events)
    requests,       \* the GET requests issued so far: <<[skip, take], ...>>
    responses,      \* what the server answered to each of them
    lines,          \* main: lines
    file,           \* the characters of OUTPUT_PATH on disk (NoFile: absent)
    \* ---- a single call of a helper, for the helpers' own contracts ----
    arg,            \* the argument of the call
    ret,            \* what the call returned
    ret2            \* what a second call, on ret, returned

vars == <<API_URL, uidDomainEnv, now, feed, hasTotal, servePolicy, pc, skip, events,
          requests, responses, lines, file, arg, ret, ret2>>

envVars  == <<API_URL, uidDomainEnv, now, feed, hasTotal, servePolicy>>
runVars  == <<skip, events, requests, responses, lines, file>>
callVars == <<arg, ret, ret2>>

(***************************************************************************)
(* Bounds of the model.                                                    *)
(***************************************************************************)
MaxTotal   == 120   \* the feed holds 0..MaxTotal records
MaxEscLen  == 4     \* escape_ical is called on texts of up to MaxEscLen chars
MaxHtmlLen == 5     \* strip_html is called on texts of up to MaxHtmlLen chars
MaxRecords == 3     \* the assembler is run on lists of up to MaxRecords records

(***************************************************************************)
(* Python values.  A value is a record [t, s]: its type and, for a str,    *)
(* its characters; for any other type s is what str() renders it as.       *)
(***************************************************************************)
None      == [t |-> "None", s |-> <<"None">>]
PyStr(s)  == [t |-> "str",  s |-> s]
PyInt(n)  == [t |-> "int",  s |-> <<ToString(n)>>]
PyList(r) == [t |-> "list", s |-> r]
EmptyDict == [t |-> "dict", s |-> <<"{}">>]
\* The "address" object of a record, and its "state" object.
AddressDict(n, a) == [t |-> "dict", s |-> <<"{address}">>, name |-> n, address |-> a]
StateDict(st)     == [t |-> "dict", s |-> <<"{state}">>, status |-> st]

\* d.get(key) on a dict: the value, or None when the key is absent.
get(d, key) == IF key \in DOMAIN d THEN d[key] ELSE None

\* Python truthiness: None, "", 0, [] and {} are falsy.
Truthy(v) ==
    CASE v.t = "None" -> FALSE
      [] v.t = "str"  -> v.s # <<>>
      [] v.t = "int"  -> v.s # <<"0">>
      [] v.t = "list" -> v.s # <<"[]">>
      [] v.t = "dict" -> v.s # <<"{}">>

\* The characters of a sequence, as a set.
Chars(s) == {s[i] : i \in DOMAIN s}

\* All sequences over S of length at most n.
SeqUpTo(S, n) == UNION {[1..k -> S] : k \in 0..n}

(***************************************************************************)
(* str methods.                                                            *)
(***************************************************************************)
StartsWith(s, p) == Len(s) >= Len(p) /\ SubSeq(s, 1, Len(p)) = p

\* str.replace(old, new): left to right, non-overlapping.
RECURSIVE replace(_, _, _)
replace(s, old, new) ==
    IF s = <<>> THEN <<>>
    ELSE IF StartsWith(s, old)
         THEN new \o replace(SubSeq(s, Len(old) + 1, Len(s)), old, new)
         ELSE <<Head(s)>> \o replace(Tail(s), old, new)

\* What str.split() and str.strip() take for whitespace (ASCII).
Whitespace == {" ", "\t", "\n", "\r", "\f"}

RECURSIVE lstrip(_)
lstrip(s) == IF s # <<>> /\ Head(s) \in Whitespace THEN lstrip(Tail(s)) ELSE s

RECURSIVE rstrip(_)
rstrip(s) ==
    IF s # <<>> /\ s[Len(s)] \in Whitespace
    THEN rstrip(SubSeq(s, 1, Len(s) - 1)) ELSE s

strip(s) == rstrip(lstrip(s))

\* The length of the longest prefix of s whose characters are all in S.
RECURSIVE Span(_, _)
Span(s, S) == IF s # <<>> /\ Head(s) \in S THEN 1 + Span(Tail(s), S) ELSE 0

\* str.split(): the maximal runs of non-whitespace characters.
RECURSIVE split(_)
split(s) ==
    LET t == lstrip(s)
        n == Span(t, Chars(t) \ Whitespace)
    IN  IF t = <<>> THEN <<>>
        ELSE <<SubSeq(t, 1, n)>> \o split(SubSeq(t, n + 1, Len(t)))

\* The concatenation of parts[lo..hi].
RECURSIVE Concat(_, _, _)
Concat(parts, lo, hi) ==
    IF lo > hi THEN <<>>
    ELSE IF lo = hi THEN parts[lo]
    ELSE LET mid == (lo + hi) \div 2
         IN  Concat(parts, lo, mid) \o Concat(parts, mid + 1, hi)

\* sep.join(parts)
join(sep, parts) ==
    Concat([i \in 1..Len(parts) |-> IF i = 1 THEN parts[i] ELSE sep \o parts[i]],
           1, Len(parts))

(***************************************************************************)
(* escape_ical (lines 29-38).                                              *)
(***************************************************************************)
\* The escaping with the backslash replaced last instead of first.
escape_ical_commas_first(text) ==
    IF text = <<>> THEN <<>>
    ELSE replace(replace(replace(replace(text,
             <<",">>,  <<"\\", ",">>),
             <<";">>,  <<"\\", ";">>),
             <<"\n">>, <<"\\", "n">>),
             <<"\\">>, <<"\\", "\\">>)

\* `if not text: return ""`, then the four replacements, backslash first.
escape_ical(text) ==
    IF text = <<>> THEN <<>>
    ELSE replace(replace(replace(replace(text,
             <<"\\">>, <<"\\", "\\">>),
             <<",">>,  <<"\\", ",">>),
             <<";">>,  <<"\\", ";">>),
             <<"\n">>, <<"\\", "n">>)

(***************************************************************************)
(* strip_html (lines 41-54).                                               *)
(***************************************************************************)
\* re.sub(r'<[^>]+>', '', html): at a '<', the match runs to the first '>'
\* after it, and there is one only if at least one character lies between.
RECURSIVE remove_tags(_)
remove_tags(s) ==
    IF s = <<>> THEN <<>>
    ELSE LET n == Span(Tail(s), Chars(s) \ {">"})
         IN  IF Head(s) = "<" /\ n >= 1 /\ n + 2 <= Len(s)
             THEN remove_tags(SubSeq(s, n + 3, Len(s)))
             ELSE <<Head(s)>> \o remove_tags(Tail(s))

\* html.entities.html5, restricted to the names the model's texts can spell.
Html5Names ==
    {<<"l", "t">>, <<"l", "t", ";">>, <<"l", "l", ";">>,
     <<"nbsp">>, <<"nbsp", ";">>}

html5(name) ==
    CASE name \in {<<"l", "t">>, <<"l", "t", ";">>} -> <<"<">>
      [] name = <<"l", "l", ";">>                  -> <<"U+226A">>
      [] name \in {<<"nbsp">>, <<"nbsp", ";">>}    -> <<"U+00A0">>

\* The characters a named character reference may not hold: [^\t\n\f <&#;]
NotInName == {"\t", "\n", "\f", " ", "<", "&", "#", ";"}

Min(a, b) == IF a < b THEN a ELSE b

\* html._replace_charref on the group s (the reference without its '&'):
\* the whole name if html5 has it, else the longest proper prefix of at
\* least two characters that html5 has, else the text unchanged.
replace_charref(s) ==
    IF s \in Html5Names THEN html5(s)
    ELSE LET P == {x \in 2..(Len(s) - 1) : SubSeq(s, 1, x) \in Html5Names}
         IN  IF P # {}
             THEN LET x == CHOOSE y \in P : \A z \in P : z <= y
                  IN  html5(SubSeq(s, 1, x)) \o SubSeq(s, x + 1, Len(s))
             ELSE <<"&">> \o s

\* html.unescape: every match of &([^\t\n\f <&#;]{1,32};?) is replaced.
RECURSIVE unescape(_)
unescape(s) ==
    IF s = <<>> THEN <<>>
    ELSE IF Head(s) # "&" THEN <<Head(s)>> \o unescape(Tail(s))
    ELSE LET r == Tail(s)
             n == Min(Span(r, Chars(r) \ NotInName), 32)
             m == IF n < Len(r) /\ r[n + 1] = ";" THEN n + 1 ELSE n
         IN  IF n = 0 THEN <<"&">> \o unescape(r)
             ELSE replace_charref(SubSeq(r, 1, m))
                      \o unescape(SubSeq(r, m + 1, Len(r)))

\* The characters outside 7-bit ASCII that the model's texts can hold.
NonAscii == {"U+00E9", "U+226A", "U+00A0"}

\* text.encode('ascii', 'ignore').decode()
ascii_ignore(s) == SelectSeq(s, LAMBDA c : c \notin NonAscii)

\* The sanitizer with the whitespace collapsed before the non-ASCII
\* characters are dropped.
strip_html_collapse_first(html) ==
    IF html = <<>> THEN <<>>
    ELSE ascii_ignore(strip(join(<<" ">>, split(unescape(remove_tags(html))))))

\* Tags removed, entities decoded, non-ASCII dropped, whitespace collapsed.
strip_html(html) ==
    IF html = <<>> THEN <<>>
    ELSE strip(join(<<" ">>, split(ascii_ignore(unescape(remove_tags(html))))))

(***************************************************************************)
(* zulu (lines 18-26).  A timestamp text is <<date, "T", time>> followed,  *)
(* when it carries one, by its offset; parser.isoparse reads the dates,    *)
(* times and offsets below and raises ValueError on anything else.         *)
(***************************************************************************)
IsoDates   == {"2024-09-10", "2024-12-31"}
IsoTimes   == {"13:00:00", "22:30:00"}
IsoOffsets == {"Z", "-04:00", "+02:00"}

\* The date as strftime("%Y%m%d") prints it, and the day after it.
Ymd(d)     == IF d = "2024-09-10" THEN "20240910" ELSE "20241231"
NextYmd(d) == IF d = "2024-09-10" THEN "20240911" ELSE "20250101"
Hour(t)    == IF t = "13:00:00" THEN 13 ELSE 22
MinSec(t)  == IF t = "13:00:00" THEN "0000" ELSE "3000"
\* The offset from UTC, in hours.
UtcOffset(o) == CASE o = "Z" -> 0 [] o = "-04:00" -> -4 [] o = "+02:00" -> 2

Digit == <<"0", "1", "2", "3", "4", "5", "6", "7", "8", "9">>
TwoDigits(n) == Digit[(n \div 10) + 1] \o Digit[(n % 10) + 1]

isoparse_ok(s) ==
    /\ Len(s) \in {3, 4}
    /\ s[1] \in IsoDates /\ s[2] = "T" /\ s[3] \in IsoTimes
    /\ Len(s) = 4 => s[4] \in IsoOffsets

\* The value zulu returns (None, or a str) and whether it raised instead.
zulu(dt_str) ==
    IF ~Truthy(dt_str) THEN [raised |-> FALSE, v |-> None]
    ELSE IF dt_str.t # "str" \/ ~isoparse_ok(dt_str.s)
    THEN [raised |-> TRUE, v |-> None]
    ELSE LET s   == dt_str.s
             \* tzinfo None: the clock value is kept and labelled UTC
             off == IF Len(s) = 3 THEN 0 ELSE UtcOffset(s[4])
             h   == Hour(s[3]) - off
             ymd == IF h >= 24 THEN NextYmd(s[1]) ELSE Ymd(s[1])
         IN  [raised |-> FALSE,
              v |-> PyStr(<<ymd \o "T" \o TwoDigits(h % 24) \o MinSec(s[3]) \o "Z">>)]

(***************************************************************************)
(* to_vevent (lines 101-155).                                              *)
(***************************************************************************)
\* str.lower() on the letters the model's status texts hold.
LowerChar(c) ==
    CASE c = "C" -> "c" [] c = "A" -> "a" [] c = "N" -> "n"
      [] c = "E" -> "e" [] c = "L" -> "l" [] c = "D" -> "d"
      [] OTHER -> c
lower(s) == [i \in DOMAIN s |-> LowerChar(s[i])]

canceled == <<"c", "a", "n", "c", "e", "l", "e", "d">>

\* The domain to_vevent writes after the '@' of every UID (line 136).
UidDomain == "fairmontstate.edu"

\* A mapper that takes the UID's domain from the environment when it is set.
uid_line_from_env(eid, env) ==
    <<"UID:">> \o eid.s \o <<"@" \o (IF env = "" THEN UidDomain ELSE env)>>

\* f"UID:{eid}@fairmontstate.edu": env, the process environment's identity
\* domain, is not read.
uid_line(eid, env) == <<"UID:">> \o eid.s \o <<"@" \o UidDomain>>

\* x or default
Or(x, default) == IF Truthy(x) THEN x ELSE default

\* The block to_vevent(e) returns with the clock reading `clock` and the
\* environment's identity domain `env`, or raised = TRUE when an exception
\* leaves it (an AttributeError, TypeError or ValueError of a field's value).
to_vevent(e, clock, env) ==
    LET eid     == e.id
        title   == Or(e.name, PyStr(<<>>))
        descArg == Or(e.description, PyStr(<<>>))
        desc    == IF descArg.t = "str" THEN strip_html(descArg.s) ELSE <<>>
        address == Or(e.address, EmptyDict)
        name    == get(address, "name")
        addr    == get(address, "address")
        bothLoc == Truthy(name) /\ Truthy(addr)
        loc     == IF bothLoc
                   THEN strip(replace(name.s \o <<",", " ">> \o addr.s,
                                      <<" ", ",">>, <<",">>))
                   ELSE IF Truthy(name) THEN strip(name.s)
                   ELSE IF Truthy(addr) THEN strip(addr.s)
                   ELSE <<>>
        url     == e.imageUrl
        state   == Or(e.state, EmptyDict)
        status  == get(state, "status")
        is_cancelled == Truthy(status) /\ status.t = "str"
                            /\ lower(status.s) = canceled
        dtstart == zulu(e.startsOn)
        dtend   == zulu(e.endsOn)
        raises  ==
            \/ descArg.t # "str"                       \* re.sub on a non-str
            \/ address.t # "dict"                      \* address.get
            \/ ~bothLoc /\ Truthy(name) /\ name.t # "str"      \* name.strip()
            \/ ~bothLoc /\ ~Truthy(name) /\ Truthy(addr) /\ addr.t # "str"
            \/ state.t # "dict"                        \* state.get
            \/ Truthy(status) /\ status.t # "str"      \* status.lower()
            \/ dtstart.raised \/ dtend.raised          \* parser.isoparse
            \/ title.t # "str"                         \* text.replace
    IN  IF raises THEN [raised |-> TRUE, lines |-> <<>>]
        ELSE [raised |-> FALSE,
              lines  |->
                  <<  <<"BEGIN:VEVENT">>,
                      uid_line(eid, env),
                      <<"DTSTAMP:", clock>> >>
                  \o (IF Truthy(dtstart.v) THEN << <<"DTSTART:">> \o dtstart.v.s >> ELSE <<>>)
                  \o (IF Truthy(dtend.v) THEN << <<"DTEND:">> \o dtend.v.s >> ELSE <<>>)
                  \o << <<"SUMMARY:">> \o escape_ical(title.s) >>
                  \o (IF desc # <<>> THEN << <<"DESCRIPTION:">> \o escape_ical(desc) >> ELSE <<>>)
                  \o (IF loc # <<>> THEN << <<"LOCATION:">> \o escape_ical(loc) >> ELSE <<>>)
                  \o (IF Truthy(url) THEN << <<"URL:">> \o url.s >> ELSE <<>>)
                  \o (IF is_cancelled THEN << <<"STATUS:CANCELLED">> >> ELSE <<>>)
                  \o << <<"END:VEVENT">> >>]

(***************************************************************************)
(* The remote feed.                                                        *)
(***************************************************************************)
\* fetch_all_events: take (line 70)
take == 50

\* A record of the feed: every key the mapper reads, None when absent.
Record(id, name, description, startsOn, endsOn, address, imageUrl, state) ==
    [id |-> id, name |-> name, description |-> description,
     startsOn |-> startsOn, endsOn |-> endsOn, address |-> address,
     imageUrl |-> imageUrl, state |-> state]

\* The i-th record of a long feed: its id and its name.
Item(i) == Record(PyInt(i), PyStr(<<"Event">>), None, None, None, None, None, None)

LongFeeds == {[i \in 1..n |-> Item(i)] : n \in 0..MaxTotal}

CareerFair ==
    Record(PyStr(<<"42">>), PyStr(<<"Career Fair">>),
           PyStr(<<"<", "p", ">", "Meet", " ", "recruiters", " ", "&", "nbsp", ";",
                   "today", "<", "/p", ">">>),
           PyStr(<<"2024-09-10", "T", "13:00:00">>),
           PyStr(<<"2024-09-10", "T", "13:00:00", "+02:00">>),
           None, None, StateDict(PyStr(<<"Approved">>)))

Concert ==
    Record(PyInt(7), PyStr(<<"Jazz", ",", " ", "Blues", ";", "\n", "Soul">>),
           PyStr(<<"&", "l", "t", ";", "b", ">", " ", "U+00E9">>),
           PyStr(<<"2024-12-31", "T", "22:30:00", "-04:00">>), PyStr(<<>>),
           AddressDict(PyStr(<<"Hall", " ">>), PyStr(<<",", " ", "Main St">>)),
           PyStr(<<"https://img.example/7.png">>),
           StateDict(PyStr(<<"C", "A", "N", "c", "e", "l", "e", "d">>)))

Bare == Record(None, None, None, None, None, None, None, None)

BadTimestamp ==
    Record(PyStr(<<"9">>), PyStr(<<"Picnic">>), None,
           PyStr(<<"next", " ", "week">>), None, None, None, None)

SampleRecords == {CareerFair, Concert, Bare, BadTimestamp}

ShortFeeds == SeqUpTo(SampleRecords, MaxRecords)

\* The status codes the server answers with.
StatusCodes == {200, 206, 503}

\* How a server fills the page of a request: "paged" honours skip and take,
\* "all" honours skip and ignores take, "none" sends no items.
ServePolicies == {"paged", "all", "none"}

Page(records, policy, skp, tk) ==
    CASE policy = "paged" -> SubSeq(records, skp + 1, Min(skp + tk, Len(records)))
      [] policy = "all"   -> SubSeq(records, skp + 1, Len(records))
      [] policy = "none"  -> <<>>

(***************************************************************************)
(* The output file.                                                        *)
(***************************************************************************)
NoFile  == [exists |-> FALSE, chars |-> <<>>]
OldFile == [exists |-> TRUE,  chars |-> <<"BEGIN:VCALENDAR", "\r", "\n", "END:VCALENDAR">>]

\* What a text file opened with newline=nl stores when s is written to it:
\* with nl "" or "\n" the characters as they are, otherwise every "\n"
\* replaced by nl.
text_write(nl, s) ==
    IF nl \in {<<>>, <<"\n">>} THEN s
    ELSE Concat([i \in 1..Len(s) |-> IF s[i] = "\n" THEN nl ELSE <<s[i]>>],
                1, Len(s))

(***************************************************************************)
(* main (lines 162-185) and fetch_all_events (lines 61-94).                *)
(***************************************************************************)
\* `not API_URL`, restricted to an unset variable
ApiUrlUnset(url) == url = None

\* main, line 163: not API_URL
ApiUrlMissing(url) == ~Truthy(url)

\* Response.raise_for_status(): an HTTPError for a 4xx or 5xx status.
raise_for_status(status) == 400 <= status /\ status < 600

\* data.get("totalItems", len(items))
TotalOf(data) == IF data.hasTotal THEN data.totalItems ELSE Len(data.items)

\* The exit test with > for >=.
LoopDoneStrict(skp, total) == skp > total

\* line 90: skip >= total
LoopDone(skp, total) == skp >= total

\* The offset advanced by one more than the page size.
NextSkipByOneMore(skp) == skp + take + 1

\* line 88: skip += take
NextSkip(skp) == skp + take

CalendarHeader ==
    << <<"BEGIN:VCALENDAR">>, <<"VERSION:2.0">>,
       <<"PRODID:-//Fairmont State//Engage iCal//EN">>,
       <<"CALSCALE:GREGORIAN">>, <<"METHOD:PUBLISH">> >>

\* The blocks of the records, in the records' order.
Blocks(evs, clock, env) == [k \in 1..Len(evs) |-> to_vevent(evs[k], clock, env)]

\* The assembler with END:VEVENT written once, after the last block.
calendar_lines_unclosed(evs, clock, env) ==
    LET blocks == Blocks(evs, clock, env)
    IN  CalendarHeader
            \o Concat([k \in 1..Len(evs) |->
                          SubSeq(blocks[k].lines, 1, Len(blocks[k].lines) - 1)],
                      1, Len(evs))
            \o << <<"END:VEVENT">>, <<"END:VCALENDAR">> >>

\* main, lines 168-178: the header, every record's block, the closing line.
calendar_lines(evs, clock, env) ==
    LET blocks == Blocks(evs, clock, env)
    IN  CalendarHeader
            \o Concat([k \in 1..Len(evs) |-> blocks[k].lines], 1, Len(evs))
            \o << <<"END:VCALENDAR">> >>

\* main, lines 162-166, up to the first request of fetch_all_events.
Main ==
    /\ pc = "main"
    /\ IF ApiUrlMissing(API_URL)
       THEN /\ pc' = "config_error"     \* SystemExit("ENGAGE_API_URL is not set!")
            /\ UNCHANGED <<skip, events>>
       ELSE /\ pc' = "fetching"
            /\ events' = <<>>
            /\ skip' = 0
    /\ UNCHANGED <<envVars, requests, responses, lines, file, callVars>>

\* One turn of the loop of fetch_all_events (lines 72-91): the request, the
\* server's answer with the given status, and what the loop makes of it.
FetchPage(status) ==
    /\ pc = "fetching"
    /\ LET data == [hasTotal   |-> hasTotal,
                    totalItems |-> Len(feed),
                    items      |-> Page(feed, servePolicy, skip, take)]
           total == TotalOf(data)
       IN  /\ requests' = Append(requests, [skip |-> skip, take |-> take])
           /\ responses' = Append(responses,
                  [status |-> status, n |-> Len(data.items)])
           /\ IF status # 200 /\ raise_for_status(status)
              THEN /\ pc' = "http_error"        \* HTTPError leaves main
                   /\ events' = <<>>
                   /\ UNCHANGED skip
              ELSE /\ events' = events \o data.items
                   /\ skip' = NextSkip(skip)
                   /\ pc' = IF LoopDone(NextSkip(skip), total)
                            THEN "fetched" ELSE "fetching"
    /\ UNCHANGED <<envVars, lines, file, callVars>>

\* main, lines 168-185: the lines are assembled and written to OUTPUT_PATH.
WriteCalendar ==
    /\ pc = "fetched"
    /\ IF \E k \in 1..Len(events) : to_vevent(events[k], now, uidDomainEnv).raised
       THEN /\ pc' = "record_error"             \* the exception leaves main
            /\ UNCHANGED <<lines, file>>
       ELSE LET ls == calendar_lines(events, now, uidDomainEnv)
            IN  /\ lines' = ls
                /\ file' = [exists |-> TRUE,
                            chars  |-> text_write(<<"\r", "\n">>,
                                           join(<<"\r", "\n">>, ls))]
                /\ pc' = "done"
    /\ UNCHANGED <<envVars, skip, events, requests, responses, callVars>>

Next ==
    \/ Main
    \/ \E status \in StatusCodes : FetchPage(status)
    \/ WriteCalendar

ApiUrls == {None, PyStr(<<>>), PyStr(<<"https://engage.example/api/events?x=1">>)}

InitRun(feeds) ==
    /\ API_URL \in ApiUrls
    /\ uidDomainEnv = ""
    /\ now = "20261103T093000Z"
    /\ feed \in feeds
    /\ hasTotal \in BOOLEAN
    /\ servePolicy \in ServePolicies
    /\ pc = "main"
    /\ skip = 0
    /\ events = <<>>
    /\ requests = <<>>
    /\ responses = <<>>
    /\ lines = <<>>
    /\ file \in {NoFile, OldFile}
    /\ arg = <<>> /\ ret = <<>> /\ ret2 = <<>>

\* A run against a feed of simple records, up to MaxTotal of them.
Init == InitRun(LongFeeds)
Spec == Init /\ [][Next]_vars

\* A run against a short feed of records of every shape.
InitShort == InitRun(ShortFeeds)
SpecShort == InitShort /\ [][Next]_vars

(***************************************************************************)
(* Single calls of the helpers, on arguments drawn from bounded sets.      *)
(***************************************************************************)
InitCall(args) ==
    /\ API_URL = None
    /\ uidDomainEnv \in {"", "example.edu"}
    /\ now = "20261103T093000Z"
    /\ feed = <<>>
    /\ hasTotal = TRUE
    /\ servePolicy = "paged"
    /\ pc = "call"
    /\ skip = 0
    /\ events = <<>>
    /\ requests = <<>>
    /\ responses = <<>>
    /\ lines = <<>>
    /\ file = NoFile
    /\ arg \in args
    /\ ret = <<>>
    /\ ret2 = <<>>

\* ---- escape_ical ----
EscChars == {"\\", ",", ";", "\n", "n", "a"}

CallEscape ==
    /\ pc = "call"
    /\ ret' = escape_ical(arg)
    /\ pc' = "returned"
    /\ UNCHANGED <<envVars, runVars, arg, ret2>>

InitEscape == InitCall(SeqUpTo(EscChars, MaxEscLen)) /\ uidDomainEnv = ""
SpecEscape == InitEscape /\ [][CallEscape]_vars

\* ---- strip_html, called on a text and then on its own result ----
HtmlChars == {"<", ">", "&", "l", "t", ";", " ", "U+00E9"}

CallStrip ==
    /\ pc = "call"
    /\ ret' = strip_html(arg)
    /\ pc' = "returned"
    /\ UNCHANGED <<envVars, runVars, arg, ret2>>

CallStripAgain ==
    /\ pc = "returned"
    /\ ret2' = strip_html(ret)
    /\ pc' = "returned2"
    /\ UNCHANGED <<envVars, runVars, arg, ret>>

NextStrip == CallStrip \/ CallStripAgain

InitStrip == InitCall(SeqUpTo(HtmlChars, MaxHtmlLen)) /\ uidDomainEnv = ""
SpecStrip == InitStrip /\ [][NextStrip]_vars

\* ---- to_vevent, on records whose fields vary independently ----
Ids          == {None, PyStr(<<"42">>), PyInt(7)}
Names        == {None, PyStr(<<"Career Fair">>), PyInt(5)}
Descriptions == {None, PyStr(<<"<", "b", ">", "Hi", "<", "/b", ">">>), PyInt(5)}
StartsOn     == {None, PyStr(<<>>), PyStr(<<"2024-09-10", "T", "13:00:00">>),
                 PyStr(<<"next", " ", "week">>)}
EndsOn       == {None, PyStr(<<"2024-12-31", "T", "22:30:00", "-04:00">>), PyInt(0),
                 PyInt(1726000000)}
Addresses    == {None, PyStr(<<"Library">>), EmptyDict}
                    \cup {AddressDict(n, a) : n \in {None, PyStr(<<"Hall">>)},
                                              a \in {None, PyStr(<<"Main St">>), PyInt(12)}}
ImageUrls    == {None, PyStr(<<"https://img.example/7.png">>)}
States       == {None, PyList(<<"['Canceled']">>)}
                    \cup {StateDict(st) : st \in {None, PyStr(canceled),
                                                  PyStr(<<"Approved">>), PyInt(3)}}

Records ==
    {Record(i, n, d, st, en, ad, im, sa) :
        i \in Ids, n \in Names, d \in Descriptions, st \in StartsOn, en \in EndsOn,
        ad \in Addresses, im \in ImageUrls, sa \in States}

CallToVevent ==
    /\ pc = "call"
    /\ ret' = to_vevent(arg, now, uidDomainEnv)
    /\ pc' = "returned"
    /\ UNCHANGED <<envVars, runVars, arg, ret2>>

InitVevent == InitCall(Records)
SpecVevent == InitVevent /\ [][CallToVevent]_vars

(***************************************************************************)
(* Properties.                                                             *)
(***************************************************************************)
Unwritten == file \in {NoFile, OldFile}

\* The number of pages of `tk` items that hold n items.
Ceil(n, tk) == (n + tk - 1) \div tk

\* C1: against a server that reports a constant totalItems T >= 1 and serves
\* every page in full, the requests are skip = 0, take, 2*take, ... with
\* take = 50 on each, there are never more than ceil(T/take) of them, and
\* once the loop has ended there are exactly ceil(T/take) and the events are
\* the server's records, all of them, once each, in the server's order.
C1_PaginationAggregates ==
    (hasTotal /\ servePolicy = "paged" /\ Len(feed) >= 1) =>
        /\ \A k \in DOMAIN requests :
               requests[k] = [skip |-> (k - 1) * 50, take |-> 50]
        /\ Len(requests) <= Ceil(Len(feed), 50)
        /\ pc \in {"fetched", "done", "record_error"} =>
               /\ Len(requests) = Ceil(Len(feed), 50)
               /\ events = feed

C1_Witness ==
    /\ pc = "fetched" /\ hasTotal /\ servePolicy = "paged"
    /\ Len(feed) = 120
    /\ requests = <<[skip |-> 0, take |-> 50], [skip |-> 50, take |-> 50],
                    [skip |-> 100, take |-> 50]>>
    /\ events = feed

\* C2 as stated: when the bodies carry no totalItems, there is one request
\* and no second one, whatever the first page holds.
C2_SingleRequestAlways ==
    ~hasTotal => /\ Len(requests) <= 1
                 /\ Len(requests) = 1 => pc # "fetching"

\* C2 as amended: when the bodies carry no totalItems and the first page
\* holds at most take = 50 items, the loop ends after that one request.
C2_SingleRequestWithinTake ==
    (~hasTotal /\ Len(responses) >= 1 /\ responses[1].n <= 50) =>
        /\ Len(requests) = 1
        /\ pc # "fetching"

C2_Witness ==
    /\ ~hasTotal /\ pc = "fetched" /\ servePolicy = "all"
    /\ Len(requests) = 1
    /\ responses[1] = [status |-> 200, n |-> 50]
    /\ Len(events) = 50

\* C3: a response whose status is not 200 is the last one, fails the run,
\* leaves nothing of the fetched items and leaves the output file as it was.
C3_Non200FailsRun ==
    \A k \in DOMAIN responses :
        responses[k].status # 200 =>
            /\ k = Len(requests)
            /\ pc = "http_error"
            /\ events = <<>>
            /\ Unwritten

\* C4: with ENGAGE_API_URL unset or empty, main ends in the configuration
\* error with no request issued and the output file untouched.
C4_ConfigErrorBeforeNetwork ==
    API_URL \in {None, PyStr(<<>>)} =>
        /\ pc \in {"main", "config_error"}
        /\ requests = <<>>
        /\ Unwritten

C4_Witness ==
    /\ API_URL = PyStr(<<>>) /\ pc = "config_error"
    /\ requests = <<>> /\ file = OldFile

\* The places of the lines of `ls` equal to `line`, and the k-th of a set of
\* places.
Places(ls, line) == {i \in DOMAIN ls : ls[i] = line}
Kth(S, k) == CHOOSE x \in S : Cardinality({y \in S : y <= x}) = k

\* C5: the lines main assembles start with BEGIN:VCALENDAR, end with
\* END:VCALENDAR and hold as many BEGIN:VEVENT as END:VEVENT lines as there
\* are records; the k-th BEGIN:VEVENT comes before the k-th END:VEVENT, which
\* comes before the next BEGIN:VEVENT, and what lies between them is the
\* block of the k-th record.
C5_CalendarStructure ==
    pc = "done" =>
        LET B == Places(lines, <<"BEGIN:VEVENT">>)
            E == Places(lines, <<"END:VEVENT">>)
            n == Len(events)
        IN  /\ Head(lines) = <<"BEGIN:VCALENDAR">>
            /\ lines[Len(lines)] = <<"END:VCALENDAR">>
            /\ Cardinality(B) = n
            /\ Cardinality(E) = n
            /\ \A k \in 1..n :
                   /\ Kth(B, k) < Kth(E, k)
                   /\ k < n => Kth(E, k) < Kth(B, k + 1)
                   /\ SubSeq(lines, Kth(B, k), Kth(E, k))
                          = to_vevent(events[k], now, uidDomainEnv).lines

C5_Witness ==
    /\ pc = "done"
    /\ events = <<Concert, Bare, CareerFair>>
    /\ Places(lines, <<"BEGIN:VEVENT">>) = {6, 16, 21}
    /\ Places(lines, <<"END:VEVENT">>) = {15, 20, 28}
    /\ Len(lines) = 29

\* Whether a field's value is a text holding a CR or an LF.
HasCrLf(v) == v.t = "str" /\ Chars(v.s) \cap {"\r", "\n"} # {}

CrLfFree(e) ==
    /\ \A f \in {"id", "name", "description", "startsOn", "endsOn", "imageUrl"} :
           ~HasCrLf(e[f])
    /\ e.address.t = "dict" =>
           ~HasCrLf(get(e.address, "name")) /\ ~HasCrLf(get(e.address, "address"))
    /\ e.state.t = "dict" => ~HasCrLf(get(e.state, "status"))

\* C6: when no field of the records holds a CR or an LF, the characters in
\* the file are the lines with exactly CR LF between each two of them.
C6_CrLfOnly ==
    (pc = "done" /\ \A k \in DOMAIN events : CrLfFree(events[k])) =>
        file.chars = join(<<"\r", "\n">>, lines)

C8_NeverRaises ==
    pc = "returned" =>
        /\ ~ret.raised
        /\ ret.lines # <<>>
        /\ Head(ret.lines) = <<"BEGIN:VEVENT">>
        /\ ret.lines[Len(ret.lines)] = <<"END:VEVENT">>

\* C9 as stated: strip_html of strip_html's result is that result.
C9_StripIdempotent ==
    pc = "returned2" => ret2 = ret

\* C9 as amended: on a text that holds no '&' (so no character reference),
\* strip_html of strip_html's result is that result.
C9_StripIdempotentNoAmpersand ==
    (pc = "returned2" /\ "&" \notin Chars(arg)) => ret2 = ret

C9_Witness ==
    /\ pc = "returned2"
    /\ arg = <<"<", "t", ">", "U+00E9", " ">>
    /\ ret = <<>> /\ ret2 = <<>>

\* The inverse of the escaping, scanned left to right: \\ is a backslash,
\* \, a comma, \; a semicolon and \n a newline.
RECURSIVE unescape_ical(_)
unescape_ical(s) ==
    IF s = <<>> THEN <<>>
    ELSE IF Head(s) = "\\" /\ Len(s) >= 2 /\ s[2] \in {"\\", ",", ";", "n"}
         THEN <<IF s[2] = "n" THEN "\n" ELSE s[2]>>
                  \o unescape_ical(SubSeq(s, 3, Len(s)))
         ELSE <<Head(s)>> \o unescape_ical(Tail(s))

\* C10: unescaping what escape_ical returns gives back its argument.
C10_EscapeRoundTrip ==
    pc = "returned" => unescape_ical(ret) = arg

C10_Witness ==
    /\ pc = "returned"
    /\ arg = <<"\\", "n", ",", "\n">>
    /\ ret = <<"\\", "\\", "n", "\\", ",", "\\", "n">>

=============================================================================
